---- MODULE Spec2Model ----
(***************************************************************************)
(* A model of the ZenTao MCP server, src/src/zentao-mcp-server.js: the     *)
(* token cache (fetchToken), the authenticated request executor            *)
(* (callZenTao, buildUrl, safeJson) and the tool handlers built on them.   *)
(*                                                                         *)
(* JavaScript strings are sequences of one-character strings, JavaScript   *)
(* values are records tagged with their type, and a response body is a     *)
(* text that either is the serialisation of a JSON value or is not JSON.   *)
(* Every handler runs without interruption from one await of network I/O   *)
(* to the next: one action per such stretch of code.                       *)
(***************************************************************************)
EXTENDS Integers, Sequences, FiniteSets, TLC

\* ------------------------------------------------------------------ bounds

\* The number of tool invocations (logical calls) of one run.
NumCalls == 2

\* buildUrl alone: the longest path and the most entries of a query mapping.
MaxPathLen == 5
MaxQueryLen == 2

\* The bug tools: the most products and the most bugs in one reply of the remote.
MaxProducts == 2
MaxBugs == 2
\* The most projects in a reply of the remote.
MaxProjects == 2

\* zentao://config: the most tokens the remote issues before the report is read.
MaxIssued == 2

\* extractArray alone: the most candidate keys.
MaxKeys == 2

Calls == 1..NumCalls

\* --------------------------------------------------------- JavaScript values

Undefined == [type |-> "undefined"]
JNull == [type |-> "null"]
JStr(s) == [type |-> "string", s |-> s]
JNum(n) == [type |-> "number", n |-> n]
JArr(items) == [type |-> "array", items |-> items]
JObj(fields) == [type |-> "object", fields |-> fields]
\* A string of rich text, by its elements: [tag |-> "img", src |-> chars] for <img src=...>.
JHtml(elems) == [type |-> "html", elems |-> elems]

\* ToBoolean, as `!x`, `x || y` and `x ? a : b` use it.
Truthy(v) ==
  CASE v.type = "undefined" -> FALSE
    [] v.type = "null" -> FALSE
    [] v.type = "string" -> v.s # <<>>
    [] v.type = "number" -> v.n # 0
    [] v.type = "html" -> v.elems # <<>>
    [] OTHER -> TRUE

\* v == null, as `??` and `?.` test it.
Nullish(v) == v.type \in {"undefined", "null"}

\* v?.[key]
Get(v, key) ==
  IF v.type = "object" /\ key \in DOMAIN v.fields THEN v.fields[key] ELSE Undefined

\* ------------------------------------------------------------ response texts

\* A body that is not JSON, by its characters.
RawText(chars) == [kind |-> "raw", chars |-> chars]
\* A body that is the serialisation of the JSON value v.
JsonText(v) == [kind |-> "json", value |-> v]

\* text === "", as `text || ...` tests it (no JSON value serialises to "").
TextEmpty(text) == text.kind = "raw" /\ text.chars = <<>>

\* JSON.parse succeeds on text.
Parses(text) == text.kind = "json"

\* safeJson: the parsed value, or null when JSON.parse throws.
safeJson(text) == IF Parses(text) THEN text.value ELSE JNull

\* res.ok
IsOk(status) == status >= 200 /\ status <= 299

\* --------------------------------------------------------------- strings

\* s.startsWith(p)
StartsWith(s, p) == Len(s) >= Len(p) /\ SubSeq(s, 1, Len(p)) = p

\* s.replace(/\/$/, "")
StripTrailingSlash(s) ==
  IF Len(s) > 0 /\ s[Len(s)] = "/" THEN SubSeq(s, 1, Len(s) - 1) ELSE s

\* s.replace(/^\//, "")
StripLeadingSlash(s) ==
  IF Len(s) > 0 /\ s[1] = "/" THEN SubSeq(s, 2, Len(s)) ELSE s

Http == <<"h", "t", "t", "p">>
ApiPrefix == <<"/", "a", "p", "i", ".", "p", "h", "p", "/", "v", "1", "/">>

\* ------------------------------------------------------------------- state

VARIABLES
  env,          \* process.env after loadEnvFallback: ZENTAO_BASE_URL, _ACCOUNT, _PASSWORD, _TOKEN
  baseUrl,      \* const baseUrl
  account,      \* const account
  password,     \* const password
  cachedToken,  \* let cachedToken
  pc,           \* per call: "idle", "token_wait" (awaiting the login exchange),
                \*   "fetch_wait" (awaiting the target request), "done"
  tool,         \* per call: the tool invoked
  args,         \* per call: its arguments
  login,        \* per call: the reply to its login exchange (status 0: none yet)
  sent,         \* per call: the target request it issued
  reply,        \* per call: the reply to its target request (status 0: none yet)
  result,       \* per call: what the handler returned or threw
  issued,       \* the remote: the number of tokens it has issued
  urlIn,        \* buildUrl alone: its arguments path and query
  urlOut,       \* buildUrl alone: what it returned (called: whether it has)
  targs,        \* per call: the arguments of a bug tool
  stage,        \* per call: which request of a tool is awaited: "products", "bugs",
                \*   "detail", "projects", "search", "page", "found"
  local,        \* per call: the handler's locals: matches, product, bugs, page
  report,       \* the text of zentao://config as last read (read: whether it has been)
  exIn,         \* extractArray alone: its arguments payload and keys
  exOut         \* extractArray alone: what it returned (called: whether it has)

vars == <<env, baseUrl, account, password, cachedToken, pc, tool, args, login, sent,
          reply, result, issued, urlIn, urlOut, targs, stage, local, report, exIn, exOut>>

urlVars == <<urlIn, urlOut>>

readVars == <<report, exIn, exOut>>

toolVars == <<targs, stage, local>>

config == <<env, baseUrl, account, password>>

NoChars == <<>>
NoQuery == [present |-> FALSE, entries |-> <<>>]
NoArgs == [force |-> FALSE, path |-> NoChars, method |-> "", query |-> NoQuery]
NoReply == [status |-> 0, statusText |-> NoChars, headers |-> "", text |-> RawText(NoChars)]
NoRequest == [issued |-> FALSE, url |-> NoChars, method |-> "", token |-> Undefined]
NoData == [from |-> "none", value |-> Undefined, text |-> RawText(NoChars)]
NoResult ==
  [kind |-> "none", msg |-> "", status |-> 0, body |-> RawText(NoChars),
   token |-> Undefined, headers |-> "", data |-> NoData, items |-> <<>>,
   value |-> Undefined]
NoToolArgs ==
  [productName |-> Undefined, productId |-> Undefined, keyword |-> Undefined,
   status |-> Undefined, allStatuses |-> FALSE, limit |-> Undefined]
NoLocal ==
  [listed |-> FALSE, matches |-> <<>>, product |-> Undefined, bugs |-> <<>>, page |-> 0]

\* throw new Error(msg + status + body)
Err(msg, status, body) ==
  [NoResult EXCEPT !.kind = "error", !.msg = msg, !.status = status, !.body = body]
\* the tool result `token=${token}`
TokenResult(token) == [NoResult EXCEPT !.kind = "text", !.token = token]
\* the envelope {status, headers, data}
Envelope(status, headers, data) ==
  [NoResult EXCEPT !.kind = "envelope", !.status = status, !.headers = headers,
                   !.data = data]

\* ---------------------------------------------------------------- buildUrl

Digit(d) == <<"0", "1", "2", "3", "4", "5", "6", "7", "8", "9">>[d + 1]

RECURSIVE NumToChars(_)
\* String(n) of a natural number
NumToChars(n) == IF n < 10 THEN <<Digit(n)>> ELSE NumToChars(n \div 10) \o <<Digit(n % 10)>>

ObjectObject ==
  <<"[", "o", "b", "j", "e", "c", "t", " ", "O", "b", "j", "e", "c", "t", "]">>

\* String(value), `${value}`
JsString(v) ==
  CASE v.type = "string" -> v.s
    [] v.type = "number" -> NumToChars(v.n)
    [] v.type = "null" -> <<"n", "u", "l", "l">>
    [] v.type = "object" -> ObjectObject
    [] OTHER -> <<"u", "n", "d", "e", "f", "i", "n", "e", "d">>

\* The characters URLSearchParams leaves as they are (of those the model uses).
Unreserved ==
  {"a", "b", "c", "d", "e", "f", "g", "h", "i", "j", "k", "l", "m", "n", "o", "p", "q",
   "r", "s", "t", "u", "v", "w", "x", "y", "z", "A", "B", "C", "D", "E", "F", "G", "H",
   "I", "J", "K", "L", "M", "N", "O", "P", "Q", "R", "S", "T", "U", "V", "W", "X", "Y",
   "Z", "0", "1", "2", "3", "4", "5", "6", "7", "8", "9", "*", "-", ".", "_"}

\* URLSearchParams' application/x-www-form-urlencoded byte serialisation of one character
EncodeChar(ch) ==
  CASE ch \in Unreserved -> <<ch>>
    [] ch = " " -> <<"+">>
    [] ch = "&" -> <<"%", "2", "6">>
    [] ch = "=" -> <<"%", "3", "D">>
    [] ch = "?" -> <<"%", "3", "F">>
    [] ch = "/" -> <<"%", "2", "F">>
    [] ch = ":" -> <<"%", "3", "A">>
    [] ch = "+" -> <<"%", "2", "B">>
    [] ch = "%" -> <<"%", "2", "5">>

RECURSIVE Encode(_)
Encode(s) == IF s = <<>> THEN <<>> ELSE EncodeChar(Head(s)) \o Encode(Tail(s))

\* buildUrl's forEach: the entry is appended unless its value is undefined or null
Emits(value) == ~Nullish(value)

RECURSIVE UspToString(_)
\* usp.toString() of the entries appended, in order
UspToString(entries) ==
  IF entries = <<>> THEN <<>>
  ELSE Encode(Head(entries).key) \o <<"=">> \o Encode(JsString(Head(entries).value))
       \o (IF Tail(entries) = <<>> THEN <<>> ELSE <<"&">> \o UspToString(Tail(entries)))

\* path.startsWith("http")
IsAbsolute(path) == StartsWith(path, Http)

\* const cleaned = ...
Cleaned(base, path) ==
  IF IsAbsolute(path) THEN path ELSE base \o ApiPrefix \o StripLeadingSlash(path)

\* buildUrl(path, query), with the module-level baseUrl passed as base
BuildUrl(base, path, query) ==
  IF ~query.present \/ Len(query.entries) = 0 THEN Cleaned(base, path)
  ELSE Cleaned(base, path) \o <<"?">>
       \o UspToString(SelectSeq(query.entries, LAMBDA e : Emits(e.value)))

buildUrl(path, query) == BuildUrl(baseUrl, path, query)

\* ------------------------------------------------------ the remote's replies

Boom == <<"b", "o", "o", "m">>
Unknown == <<"u", "n", "k", "n", "o", "w", "n">>
T0 == <<"t", "0">>
Host == <<"h", "t", "t", "p", ":", "/", "/", "z">>

\* What the environment may hold (an unset variable reads as "").
EnvBaseUrls == {NoChars, Host \o <<"/">>}
EnvAccounts == {NoChars, <<"a">>}
EnvPasswords == {NoChars, <<"p">>}
EnvTokens == {NoChars, T0}

\* Replies to POST /tokens; fresh is the token the remote issues with this reply.
LoginReplies(fresh) ==
  {[status |-> 200, text |-> JsonText(JObj([token |-> JStr(fresh)]))],
   [status |-> 200, text |-> RawText(Boom)],
   [status |-> 200, text |-> JsonText(JNull)],
   [status |-> 200, text |-> JsonText(JObj([error |-> JStr(Boom)]))],
   [status |-> 200, text |-> JsonText(JObj([token |-> JStr(NoChars)]))],
   [status |-> 401, text |-> RawText(Boom)],
   [status |-> 401, text |-> JsonText(JObj([token |-> JStr(fresh)]))]}

JsonHeaders == "content-type: application/json"
Departments == JObj([data |-> JArr(<<JObj([id |-> JNum(1)])>>)])

\* Replies to a target request.
TargetReplies ==
  {[status |-> 200, statusText |-> <<"O", "K">>, text |-> JsonText(Departments)],
   [status |-> 200, statusText |-> <<"O", "K">>, text |-> JsonText(JNull)],
   [status |-> 200, statusText |-> <<"O", "K">>, text |-> RawText(Boom)],
   [status |-> 500, statusText |-> <<"E">>, text |-> RawText(Boom)],
   [status |-> 500, statusText |-> <<"E">>, text |-> JsonText(Departments)],
   [status |-> 500, statusText |-> <<"E">>, text |-> RawText(NoChars)],
   [status |-> 500, statusText |-> NoChars, text |-> RawText(NoChars)]}

\* Arguments of the tool `call`.
CallPaths == {NoChars, <<"/", "d">>}
CallMethods == {"GET"}

\* --------------------------------------------------- assertConfig, fetchToken

\* assertConfig: the message it throws, "" when it returns
assertConfig ==
  IF baseUrl = NoChars THEN "Missing ZENTAO_BASE_URL"
  ELSE IF account = NoChars THEN "Missing ZENTAO_ACCOUNT"
  ELSE IF password = NoChars THEN "Missing ZENTAO_PASSWORD"
  ELSE ""

UsesCacheIgnoringForce(forceRefresh) == Truthy(cachedToken)

UsesCacheNever(forceRefresh) == FALSE

\* fetchToken's first line: the cached token is returned, no I/O
UsesCache(forceRefresh) == Truthy(cachedToken) /\ ~forceRefresh

\* fetchToken after the login exchange: the error it throws, NoResult when it returns
fetchTokenError(status, text) ==
  IF ~IsOk(status) THEN Err("Token request failed", status, text)
  ELSE IF ~Truthy(Get(safeJson(text), "token"))
  THEN Err("Token missing in response", 0, RawText(NoChars))
  ELSE NoResult

StoredTokenUnchecked(status, text) ==
  IF Truthy(Get(safeJson(text), "token")) THEN Get(safeJson(text), "token")
  ELSE cachedToken

\* cachedToken after fetchToken has handled the reply: data.token, once no error was thrown
StoredToken(status, text) ==
  IF fetchTokenError(status, text).kind = "error" THEN cachedToken
  ELSE Get(safeJson(text), "token")

\* ------------------------------------------------------------- callZenTao

SkipConfigCheck == ""

\* callZenTao's first line: assertConfig()
callZenTaoConfigCheck == assertConfig

\* the request callZenTao issues with the token it obtained
Request(path, method, query, token) ==
  [issued |-> TRUE, url |-> buildUrl(path, query), method |-> method, token |-> token]

\* text || res.statusText || "unknown"
FailureDetail(statusText, text) ==
  IF ~TextEmpty(text) THEN text
  ELSE IF statusText # NoChars THEN RawText(statusText)
  ELSE RawText(Unknown)

\* data ?? text
DataOrText(text) ==
  IF Nullish(safeJson(text)) THEN [NoData EXCEPT !.from = "text", !.text = text]
  ELSE [NoData EXCEPT !.from = "json", !.value = safeJson(text)]

\* callZenTao after the target request: the error it throws or the envelope it returns
callZenTaoResult(status, statusText, headers, text) ==
  IF ~IsOk(status) THEN Err("Request failed", status, FailureDetail(statusText, text))
  ELSE Envelope(status, headers, DataOrText(text))

\* ----------------------------------------------------------------- actions

\* The module's top level, lines 49-54: the configuration read from the environment.
Loaded(e) ==
  /\ env = e
  /\ baseUrl = StripTrailingSlash(e.base)
  /\ account = e.account
  /\ password = e.password
  /\ cachedToken = JStr(e.token)

NoUrlIn == [path |-> NoChars, query |-> NoQuery]
NoUrlOut == [called |-> FALSE, url |-> NoChars]
NoReport == [read |-> FALSE, text |-> NoChars]
NoExIn == [payload |-> Undefined, keys |-> <<>>]
NoExOut == [called |-> FALSE, threw |-> FALSE, items |-> <<>>]

\* Nothing has been read from the resources, and extractArray is not under test.
NothingRead == report = NoReport /\ exIn = NoExIn /\ exOut = NoExOut

\* No request handler has run yet.
NoCalls ==
  /\ pc = [c \in Calls |-> "idle"]
  /\ tool = [c \in Calls |-> ""]
  /\ args = [c \in Calls |-> NoArgs]
  /\ login = [c \in Calls |-> NoReply]
  /\ sent = [c \in Calls |-> NoRequest]
  /\ reply = [c \in Calls |-> NoReply]
  /\ result = [c \in Calls |-> NoResult]
  /\ issued = 0
  /\ targs = [c \in Calls |-> NoToolArgs]
  /\ stage = [c \in Calls |-> ""]
  /\ local = [c \in Calls |-> NoLocal]

Init ==
  /\ \E e \in [base : EnvBaseUrls, account : EnvAccounts, password : EnvPasswords,
                token : EnvTokens] : Loaded(e)
  /\ NoCalls
  /\ urlIn = NoUrlIn
  /\ urlOut = NoUrlOut
  /\ NothingRead

\* Calls are taken in the order of their numbers.
MayStart(c) == pc[c] = "idle" /\ \A d \in Calls : d < c => pc[d] # "idle"

\* No call is suspended at an await.
NoneActive == \A d \in Calls : pc[d] \in {"idle", "done"}

Finish(c, r) ==
  /\ pc' = [pc EXCEPT ![c] = "done"]
  /\ result' = [result EXCEPT ![c] = r]

\* The tool get_token, up to the login exchange: fetchToken(Boolean(args.forceRefresh)).
InvokeGetToken(c, forceRefresh) ==
  /\ MayStart(c)
  /\ tool' = [tool EXCEPT ![c] = "get_token"]
  /\ args' = [args EXCEPT ![c] = [NoArgs EXCEPT !.force = forceRefresh]]
  /\ IF UsesCache(forceRefresh) THEN Finish(c, TokenResult(cachedToken))
     ELSE IF assertConfig # "" THEN Finish(c, Err(assertConfig, 0, RawText(NoChars)))
     ELSE pc' = [pc EXCEPT ![c] = "token_wait"] /\ UNCHANGED result
  /\ UNCHANGED <<config, cachedToken, login, sent, reply, issued, urlVars, readVars, toolVars>>

\* callZenTao(descriptor) up to its first await: assertConfig, fetchToken's cache
\* check and its own assertConfig, and the target request when the token is cached.
StartCallZenTao(c, descriptor) ==
  /\ args' = [args EXCEPT ![c] = descriptor]
  /\ IF callZenTaoConfigCheck # ""
     THEN Finish(c, Err(callZenTaoConfigCheck, 0, RawText(NoChars))) /\ UNCHANGED sent
     ELSE IF UsesCache(descriptor.force)
     THEN /\ pc' = [pc EXCEPT ![c] = "fetch_wait"]
          /\ sent' = [sent EXCEPT ![c] = Request(descriptor.path, descriptor.method,
                                                 descriptor.query, cachedToken)]
          /\ UNCHANGED result
     ELSE IF assertConfig # ""
     THEN Finish(c, Err(assertConfig, 0, RawText(NoChars))) /\ UNCHANGED sent
     ELSE /\ pc' = [pc EXCEPT ![c] = "token_wait"]
          /\ UNCHANGED <<sent, result>>

\* The tool call, up to its first await: the path check, then callZenTao.
InvokeCall(c, path, method, query, forceTokenRefresh) ==
  /\ MayStart(c)
  /\ tool' = [tool EXCEPT ![c] = "call"]
  /\ IF path = NoChars
     THEN /\ args' = [args EXCEPT ![c] = [force |-> forceTokenRefresh, path |-> path,
                                          method |-> method, query |-> query]]
          /\ Finish(c, Err("path is required", 0, RawText(NoChars)))
          /\ UNCHANGED sent
     ELSE StartCallZenTao(c, [force |-> forceTokenRefresh, path |-> path,
                              method |-> method, query |-> query])
  /\ UNCHANGED <<config, cachedToken, login, reply, issued, urlVars, readVars, toolVars>>

\* The login exchange answers: fetchToken from `await fetch` to its return or throw,
\* then the caller up to its next await.
LoginReply(c, status, text) ==
  /\ pc[c] = "token_wait"
  /\ login' = [login EXCEPT ![c] = [NoReply EXCEPT !.status = status, !.text = text]]
  /\ cachedToken' = StoredToken(status, text)
  /\ IF fetchTokenError(status, text).kind = "error"
     THEN Finish(c, fetchTokenError(status, text)) /\ UNCHANGED sent
     ELSE IF tool[c] = "get_token"
     THEN Finish(c, TokenResult(cachedToken')) /\ UNCHANGED sent
     ELSE /\ pc' = [pc EXCEPT ![c] = "fetch_wait"]
          /\ sent' = [sent EXCEPT ![c] = Request(args[c].path, args[c].method,
                                                 args[c].query, cachedToken')]
          /\ UNCHANGED result
  /\ issued' = IF IsOk(status) /\ Truthy(Get(safeJson(text), "token")) THEN issued + 1
               ELSE issued
  /\ UNCHANGED <<config, tool, args, reply, urlVars, readVars, toolVars>>

\* The target request answers: callZenTao from `await fetch` to its return or throw.
TargetReply(c, status, statusText, headers, text) ==
  /\ pc[c] = "fetch_wait"
  /\ tool[c] = "call"
  /\ reply' = [reply EXCEPT ![c] = [status |-> status, statusText |-> statusText,
                                    headers |-> headers, text |-> text]]
  /\ Finish(c, callZenTaoResult(status, statusText, headers, text))
  /\ UNCHANGED <<config, cachedToken, tool, args, login, sent, issued, urlVars, readVars, toolVars>>

CallQueries == {NoQuery}

\* The token the remote issues next: t1, t2, ...
FreshToken == <<"t">> \o NumToChars(issued + 1)

Replies(c) ==
  \/ \E r \in LoginReplies(FreshToken) : LoginReply(c, r.status, r.text)
  \/ \E r \in TargetReplies : TargetReply(c, r.status, r.statusText, JsonHeaders, r.text)

\* Invocations may overlap: a call may start while another awaits a reply.
Next ==
  \E c \in Calls :
    \/ \E forceRefresh \in BOOLEAN : InvokeGetToken(c, forceRefresh)
    \/ \E path \in CallPaths, method \in CallMethods, query \in CallQueries,
          force \in BOOLEAN : InvokeCall(c, path, method, query, force)
    \/ Replies(c)

Spec == Init /\ [][Next]_vars

\* Invocations one after the other: a call starts only when no other is in flight.
SeqNext ==
  \E c \in Calls :
    \/ \E forceRefresh \in BOOLEAN : NoneActive /\ InvokeGetToken(c, forceRefresh)
    \/ \E path \in CallPaths, method \in CallMethods, query \in CallQueries,
          force \in BOOLEAN : NoneActive /\ InvokeCall(c, path, method, query, force)
    \/ Replies(c)

SpecSeq == Init /\ [][SeqNext]_vars

\* ------------------------------------------------- the request pipeline: claims

\* Call c has sent POST /tokens.
DidLogin(c) == pc[c] = "token_wait" \/ login[c].status # 0

Logins == {c \in Calls : DidLogin(c)}

\* Call c has reached fetchToken or callZenTao (the tool call with no path has not).
Authenticated(c) == pc[c] # "idle" /\ ~(tool[c] = "call" /\ args[c].path = NoChars)

ConfigFull == baseUrl # NoChars /\ account # NoChars /\ password # NoChars

\* The token in the body of the reply to call c's login exchange (undefined when none).
ReplyToken(c) == Get(safeJson(login[c].text), "token")

\* The remote answered call c's login exchange with success and a token.
LoginAnswered(c) == login[c].status # 0 /\ IsOk(login[c].status) /\ Truthy(ReplyToken(c))

\* The remote has failed no login exchange.
RemoteLoginsOk == \A c \in Calls : login[c].status # 0 => LoginAnswered(c)

AuthErrors == {"Token request failed", "Token missing in response"}

\* The token call c found in the cache when it started: the one the latest login
\* exchange answered before it returned, or the seeded one.
RECURSIVE TokenBefore(_)
TokenBefore(c) ==
  IF c = 1 THEN JStr(env.token)
  ELSE IF LoginAnswered(c - 1) THEN ReplyToken(c - 1)
  ELSE TokenBefore(c - 1)

\* The token call c handed to its caller or put in its Token header.
TokenUsed(c) == IF tool[c] = "get_token" THEN result[c].token ELSE sent[c].token

\* Call c has a token in hand.
HasToken(c) ==
  IF tool[c] = "get_token" THEN result[c].kind = "text" ELSE sent[c].issued

NoForcedCall == \A c \in Calls : ~args[c].force

CachingCase == env.token = NoChars /\ ConfigFull /\ NoForcedCall /\ RemoteLoginsOk

\* C1: with an empty cache, full configuration, a remote that answers every login
\* exchange and no forced refresh, sequential authenticated calls perform exactly one
\* login exchange, made by the first of them; every later call takes the cached token.
C1_OneLoginExchange ==
  CachingCase =>
    /\ (\E c \in Calls : Authenticated(c)) => Cardinality(Logins) = 1
    /\ \A c \in Logins : \A d \in Calls : d < c => ~Authenticated(d)
    /\ \A c \in Calls :
         Authenticated(c) /\ HasToken(c) /\ ~DidLogin(c) => TokenUsed(c) = TokenBefore(c)

C1_Witness ==
  /\ CachingCase
  /\ \A c \in Calls : pc[c] = "done" /\ Authenticated(c)
  /\ Logins = {1}
  /\ tool[2] = "call" /\ sent[2].token = ReplyToken(1)

\* C2: with full configuration a forced call performs a login exchange even when a
\* token is cached; once an exchange has succeeded the cached token is the token it
\* returned, and every later sequential call that does not log in uses that token.
C2_ForceRefresh ==
  /\ \A c \in Calls : Authenticated(c) /\ args[c].force /\ ConfigFull => DidLogin(c)
  /\ \A c \in Calls :
       (LoginAnswered(c) /\ \A d \in Calls : d > c => ~LoginAnswered(d))
         => cachedToken = ReplyToken(c)
  /\ \A c \in Calls :
       Authenticated(c) /\ HasToken(c) /\ ~DidLogin(c) => TokenUsed(c) = TokenBefore(c)

C2_Witness ==
  /\ env.token = T0
  /\ args[1].force /\ LoginAnswered(1) /\ ReplyToken(1) # JStr(T0)
  /\ tool[2] = "call" /\ ~args[2].force /\ sent[2].issued
  /\ sent[2].token = ReplyToken(1)

\* C3: concurrent calls that are not forced and start with an empty cache perform at
\* most one login exchange (full configuration, a remote that answers every exchange).
C3_AtMostOneLogin == CachingCase => Cardinality(Logins) <= 1

\* The reply to call c's login exchange arrives in this step.
LoginReplyStep(c) == pc[c] = "token_wait" /\ pc'[c] # "token_wait"

\* C4: a login exchange whose status is not success, whose body is not JSON or whose
\* body has no token field raises an authentication error; an exchange that raises
\* leaves the cached token as it was, and one that returns stores the token returned.
C4_FailedExchangeKeepsToken ==
  [][\A c \in Calls :
       LoginReplyStep(c) =>
         /\ (\/ ~IsOk(login'[c].status)
             \/ ~Parses(login'[c].text)
             \/ Get(safeJson(login'[c].text), "token").type = "undefined")
              => result'[c].kind = "error" /\ result'[c].msg \in AuthErrors
         /\ result'[c].kind = "error" => cachedToken' = cachedToken
         /\ result'[c].kind # "error"
              => cachedToken' = Get(safeJson(login'[c].text), "token")]_vars

C4_Witness ==
  \E c \in Calls :
    /\ args[c].force /\ login[c].status = 401 /\ Truthy(ReplyToken(c))
    /\ result[c].kind = "error" /\ result[c].msg = "Token request failed"
    /\ cachedToken = JStr(T0)

\* C5: callZenTao returns an envelope exactly when the status is a success; otherwise
\* it raises an error carrying the status and the body text; on success data is the
\* parsed JSON body, or the raw text when the body does not parse.
C5_EnvelopeIffSuccess ==
  \A c \in Calls :
    (tool[c] = "call" /\ reply[c].status # 0) =>
      /\ result[c].kind = "envelope" <=> IsOk(reply[c].status)
      /\ ~IsOk(reply[c].status) =>
           /\ result[c].kind = "error" /\ result[c].status = reply[c].status
           /\ ~TextEmpty(reply[c].text) => result[c].body = reply[c].text
      /\ IsOk(reply[c].status) =>
           /\ result[c].status = reply[c].status /\ result[c].headers = reply[c].headers
           /\ IF Parses(reply[c].text)
              THEN result[c].data.from = "json"
                   /\ result[c].data.value = reply[c].text.value
              ELSE result[c].data.from = "text" /\ result[c].data.text = reply[c].text

MissingFields ==
  {m \in {"Missing ZENTAO_BASE_URL", "Missing ZENTAO_ACCOUNT", "Missing ZENTAO_PASSWORD"} :
     \/ m = "Missing ZENTAO_BASE_URL" /\ baseUrl = NoChars
     \/ m = "Missing ZENTAO_ACCOUNT" /\ account = NoChars
     \/ m = "Missing ZENTAO_PASSWORD" /\ password = NoChars}

\* C6: callZenTao issues the target request only after the configuration check has
\* passed and a token was obtained: with a setting missing it fails with the error
\* naming a missing setting and does no I/O, seeded token or not; when the login
\* exchange fails no target request is issued.
C6_ConfigBeforeIO ==
  \A c \in Calls :
    tool[c] = "call" /\ args[c].path # NoChars =>
      /\ ~ConfigFull =>
           /\ pc[c] = "done" /\ result[c].kind = "error" /\ result[c].msg \in MissingFields
           /\ ~DidLogin(c) /\ ~sent[c].issued
      /\ sent[c].issued =>
           /\ ConfigFull /\ Truthy(sent[c].token)
           /\ DidLogin(c) => LoginAnswered(c) /\ sent[c].token = ReplyToken(c)
      /\ (result[c].kind = "error" /\ result[c].msg \in AuthErrors) => ~sent[c].issued

C6_Witness ==
  \E c \in Calls :
    /\ tool[c] = "call" /\ args[c].path # NoChars
    /\ env.token = T0 /\ ~ConfigFull
    /\ result[c].kind = "error" /\ result[c].msg \in MissingFields

\* ------------------------------------------------------------ buildUrl alone

PathChars == {"h", "t", "p", "/", ":"}
Paths == UNION {[1..n -> PathChars] : n \in 0..MaxPathLen}

QueryKeys == {<<"k">>, <<"q", "=">>}
QueryValues == {JNull, Undefined, JNum(7), JStr(<<"a", "&">>), JStr(<<" ", "=">>)}

\* The entries of an object: each key once, in insertion order.
EntrySeqs ==
  UNION {{es \in [1..n -> [key : QueryKeys, value : QueryValues]] :
            \A i, j \in 1..n : i # j => es[i].key # es[j].key} : n \in 0..MaxQueryLen}

Queries == {NoQuery} \cup {[present |-> TRUE, entries |-> es] : es \in EntrySeqs}

\* Every path with no query, and a relative, a slashed and an absolute path with
\* every query.
UrlInputs ==
  [path : Paths, query : {NoQuery}]
    \cup [path : {<<"p">>, <<"/", "p">>, Http \o <<":", "/", "/", "h">>}, query : Queries]

FullEnv == [base |-> Host \o <<"/">>, account |-> <<"a">>, password |-> <<"p">>,
            token |-> NoChars]

InitUrl ==
  /\ Loaded(FullEnv)
  /\ NoCalls
  /\ urlIn \in UrlInputs
  /\ urlOut = NoUrlOut
  /\ NothingRead

\* buildUrl(path, query) is called, as callZenTao calls it (line 89).
CallBuildUrl ==
  /\ ~urlOut.called
  /\ urlOut' = [called |-> TRUE, url |-> buildUrl(urlIn.path, urlIn.query)]
  /\ UNCHANGED <<config, cachedToken, pc, tool, args, login, sent, reply, result, issued,
                 urlIn, toolVars, readVars>>

SpecUrl == InitUrl /\ [][CallBuildUrl]_vars

\* -------------------------------------------------------- buildUrl: claims

SchemeChars == {"h", "t", "p"}

\* path begins with a URL scheme: letters, then a colon.
BeginsWithScheme(path) ==
  \E i \in 2..Len(path) : path[i] = ":" /\ \A j \in 1..(i - 1) : path[j] \in SchemeChars

\* C7: a path is used verbatim exactly when it begins with a URL scheme; any other
\* path resolves to base URL + API prefix + the path less one leading slash, so a
\* relative path with and without a leading slash resolve to the same URL.
C7_PathResolution ==
  (urlOut.called /\ urlIn.query = NoQuery) =>
    /\ urlOut.url = urlIn.path <=> BeginsWithScheme(urlIn.path)
    /\ ~BeginsWithScheme(urlIn.path)
         => urlOut.url = baseUrl \o ApiPrefix \o StripLeadingSlash(urlIn.path)
    /\ (~BeginsWithScheme(urlIn.path) /\ ~StartsWith(urlIn.path, <<"/">>))
         => urlOut.url = BuildUrl(baseUrl, <<"/">> \o urlIn.path, urlIn.query)

\* The first place of ch in s, 0 when it has none.
IndexOf(s, ch) ==
  IF \E i \in 1..Len(s) : s[i] = ch
  THEN CHOOSE i \in 1..Len(s) : s[i] = ch /\ \A j \in 1..(i - 1) : s[j] # ch
  ELSE 0

RECURSIVE SplitOn(_, _)
SplitOn(s, ch) ==
  IF IndexOf(s, ch) = 0 THEN <<s>>
  ELSE <<SubSeq(s, 1, IndexOf(s, ch) - 1)>>
       \o SplitOn(SubSeq(s, IndexOf(s, ch) + 1, Len(s)), ch)

\* The character a percent escape stands for.
Unescape(a, b) ==
  CASE <<a, b>> = <<"2", "6">> -> "&"
    [] <<a, b>> = <<"3", "D">> -> "="
    [] <<a, b>> = <<"3", "F">> -> "?"
    [] <<a, b>> = <<"2", "F">> -> "/"
    [] <<a, b>> = <<"3", "A">> -> ":"
    [] <<a, b>> = <<"2", "B">> -> "+"
    [] <<a, b>> = <<"2", "5">> -> "%"

RECURSIVE Decode(_)
\* Form-urlencoded decoding, as the receiving server does it.
Decode(s) ==
  IF s = <<>> THEN <<>>
  ELSE IF Head(s) = "+" THEN <<" ">> \o Decode(Tail(s))
  ELSE IF Head(s) = "%" /\ Len(s) >= 3
  THEN <<Unescape(s[2], s[3])>> \o Decode(SubSeq(s, 4, Len(s)))
  ELSE <<Head(s)>> \o Decode(Tail(s))

\* One name=value pair of a query string, decoded.
ParsePair(s) ==
  IF IndexOf(s, "=") = 0 THEN [key |-> Decode(s), value |-> NoChars]
  ELSE [key |-> Decode(SubSeq(s, 1, IndexOf(s, "=") - 1)),
        value |-> Decode(SubSeq(s, IndexOf(s, "=") + 1, Len(s)))]

\* The parameters a query string carries, in order.
ParseQuery(s) ==
  IF s = <<>> THEN <<>>
  ELSE [i \in 1..Len(SplitOn(s, "&")) |-> ParsePair(SplitOn(s, "&")[i])]

\* The parameters the claim expects: the entries whose value is neither null nor
\* undefined, each with its value as a string.
ExpectedParams(query) ==
  LET kept == SelectSeq(query.entries, LAMBDA e : ~Nullish(e.value))
  IN [i \in 1..Len(kept) |-> [key |-> kept[i].key, value |-> JsString(kept[i].value)]]

\* C8: the query string carries exactly the entries whose value is neither null nor
\* undefined, each encoded; when no entry is emitted (mapping absent, empty, or all
\* values null or undefined) the URL has no query string at all.
C8_QueryComposition ==
  urlOut.called =>
    IF Len(ExpectedParams(urlIn.query)) = 0
    THEN urlOut.url = Cleaned(baseUrl, urlIn.path)
    ELSE /\ StartsWith(urlOut.url, Cleaned(baseUrl, urlIn.path) \o <<"?">>)
         /\ ParseQuery(SubSeq(urlOut.url, Len(Cleaned(baseUrl, urlIn.path)) + 2,
                              Len(urlOut.url))) = ExpectedParams(urlIn.query)

\* C8 where it holds: a query mapping of which some entry is emitted.
C8_EmittedParams ==
  (urlOut.called /\ Len(ExpectedParams(urlIn.query)) > 0) => C8_QueryComposition

\* ------------------------------------------------- normalisation and filters

UpperCase ==
  <<"A", "B", "C", "D", "E", "F", "G", "H", "I", "J", "K", "L", "M", "N", "O", "P", "Q",
    "R", "S", "T", "U", "V", "W", "X", "Y", "Z">>
LowerCase ==
  <<"a", "b", "c", "d", "e", "f", "g", "h", "i", "j", "k", "l", "m", "n", "o", "p", "q",
    "r", "s", "t", "u", "v", "w", "x", "y", "z">>

LowerChar(ch) ==
  IF \E i \in 1..Len(UpperCase) : UpperCase[i] = ch
  THEN LowerCase[CHOOSE i \in 1..Len(UpperCase) : UpperCase[i] = ch]
  ELSE ch

\* s.toLowerCase()
ToLower(s) == [i \in 1..Len(s) |-> LowerChar(s[i])]

RECURSIVE TrimStart(_)
TrimStart(s) == IF s # <<>> /\ Head(s) = " " THEN TrimStart(Tail(s)) ELSE s

RECURSIVE TrimEnd(_)
TrimEnd(s) ==
  IF s # <<>> /\ s[Len(s)] = " " THEN TrimEnd(SubSeq(s, 1, Len(s) - 1)) ELSE s

\* s.trim()
Trim(s) == TrimEnd(TrimStart(s))

\* s.includes(sub)
Includes(s, sub) ==
  \E i \in 1..(Len(s) - Len(sub) + 1) : SubSeq(s, i, i + Len(sub) - 1) = sub

\* list.slice(0, limit)
Slice(list, limit) == SubSeq(list, 1, IF limit < Len(list) THEN limit ELSE Len(list))

\* a || b
Or(a, b) == IF Truthy(a) THEN a ELSE b

\* a parameter `limit = d`: the default stands in for undefined only
LimitOr(limit, d) == IF limit.type = "undefined" THEN d ELSE limit.n

\* The characters of a response text that `data ?? text` hands on: a body that is
\* not JSON, or the body null.
TextChars(text) == IF text.kind = "raw" THEN text.chars ELSE JsString(text.value)

\* res.data of an envelope, as a value
DataValue(data) == IF data.from = "json" THEN data.value ELSE JStr(TextChars(data.text))

\* extractArray with the data key looked at before the caller's keys
extractDataFirst(payload, keys) ==
  LET hits == {i \in 1..Len(keys) : Get(payload, keys[i]).type = "array"}
  IN IF Get(payload, "data").type = "array" THEN Get(payload, "data").items
     ELSE IF hits # {} THEN Get(payload, keys[CHOOSE i \in hits : TRUE]).items
     ELSE <<>>

RECURSIVE extractFromKeys(_, _)
\* extractArray's loop over keys, then the data key, then []
extractFromKeys(payload, keys) ==
  IF keys = <<>>
  THEN IF Get(payload, "data").type = "array" THEN Get(payload, "data").items ELSE <<>>
  ELSE IF Get(payload, Head(keys)).type = "array" THEN Get(payload, Head(keys)).items
  ELSE extractFromKeys(payload, Tail(keys))

extractArray(payload, keys) ==
  IF payload.type = "array" THEN payload.items ELSE extractFromKeys(payload, keys)

\* Whether extractArray throws: payload[key] and payload.data (lines 137 and 139, no
\* `?.`) throw on null and undefined, and are reached when the `?.` test before them
\* found an array.
extractArrayThrows(payload, keys) ==
  /\ Nullish(payload)
  /\ \/ \E i \in 1..Len(keys) : Get(payload, keys[i]).type = "array"
     \/ Get(payload, "data").type = "array"

\* normalizeAccount's candidates of an object, undefined and null dropped
AccountCandidates(value) ==
  LET fields == <<"account", "name", "realname", "realName", "username", "user", "id">>
      present == SelectSeq(fields, LAMBDA f : ~Nullish(Get(value, f)))
  IN [i \in 1..Len(present) |-> JsString(Get(value, present[i]))]

normalizeAccount(value) ==
  LET values ==
        IF ~Truthy(value) THEN <<>>
        ELSE IF value.type \in {"string", "number"} THEN <<JsString(value)>>
        ELSE IF value.type \in {"object", "array"} THEN AccountCandidates(value)
        ELSE <<>>
      lowered == [i \in 1..Len(values) |-> ToLower(Trim(values[i]))]
  IN SelectSeq(lowered, LAMBDA v : Len(v) > 0 /\ v # ToLower(ObjectObject))

\* `${p.name || ""}`
NameOf(p) == JsString(Or(Get(p, "name"), JStr(NoChars)))

\* ------------------------------------------- listProducts, findProductByName

ProductsPath == <<"p", "r", "o", "d", "u", "c", "t", "s">>
BugsPath == <<"b", "u", "g", "s">>
KeyPage == <<"p", "a", "g", "e">>
KeyLimit == <<"l", "i", "m", "i", "t">>
KeyProduct == <<"p", "r", "o", "d", "u", "c", "t">>
KeyKeywords == <<"k", "e", "y", "w", "o", "r", "d", "s">>

\* the descriptor listProducts hands to callZenTao
ProductsDescriptor(keyword, limit) ==
  [force |-> FALSE, path |-> ProductsPath, method |-> "GET",
   query |-> [present |-> TRUE,
              entries |-> <<[key |-> KeyPage, value |-> JNum(1)],
                            [key |-> KeyLimit, value |-> JNum(limit)],
                            [key |-> KeyKeywords, value |-> keyword]>>]]

\* listProducts after the reply: extract, filter by keyword, then slice
listProductsResult(payload, keyword, limit) ==
  LET products == extractArray(payload, <<"products">>)
      filtered ==
        IF Truthy(keyword)
        THEN SelectSeq(products,
                       LAMBDA p : Includes(ToLower(NameOf(p)), ToLower(JsString(keyword))))
        ELSE products
  IN Slice(filtered, limit)

\* findProductByName after listProducts: the product, undefined when none is resolved
findProduct(candidates, name) ==
  LET exact == SelectSeq(candidates,
                         LAMBDA p : ToLower(NameOf(p)) = ToLower(JsString(name)))
  IN IF exact # <<>> THEN exact[1]
     ELSE IF Len(candidates) = 1 THEN candidates[1]
     ELSE Undefined

RECURSIVE JoinNames(_)
\* matches.map((p) => `${p.id}:${p.name}`).join(", ")
JoinNames(matches) ==
  IF matches = <<>> THEN <<>>
  ELSE JsString(Get(Head(matches), "id")) \o <<":">> \o JsString(Get(Head(matches), "name"))
       \o (IF Tail(matches) = <<>> THEN <<>> ELSE <<",", " ">> \o JoinNames(Tail(matches)))

\* ------------------------------------------------ listProjectsForAccount

ProjectsPath == <<"p", "r", "o", "j", "e", "c", "t", "s">>

\* the descriptor listProjectsForAccount hands to callZenTao
ProjectsDescriptor(limit) ==
  [force |-> FALSE, path |-> ProjectsPath, method |-> "GET",
   query |-> [present |-> TRUE,
              entries |-> <<[key |-> KeyPage, value |-> JNum(1)],
                            [key |-> KeyLimit, value |-> JNum(limit)]>>]]

RoleFields == <<"PM", "PO", "QD", "RD", "openedBy", "lastEditedBy", "assignedTo">>

\* team.some((m) => `${m.account || m.name || ""}`.toLowerCase() === accountLower)
TeamMatch(p, accountLower) ==
  LET team == IF Get(p, "teamMembers").type = "array" THEN Get(p, "teamMembers").items
              ELSE <<>>
  IN \E i \in 1..Len(team) :
       ToLower(JsString(Or(Or(Get(team[i], "account"), Get(team[i], "name")),
                           JStr(NoChars)))) = accountLower

\* fields.includes(accountLower), fields the truthy role fields as `${v}`.toLowerCase()
FieldMatch(p, accountLower) ==
  \E i \in 1..Len(RoleFields) :
    /\ Truthy(Get(p, RoleFields[i]))
    /\ ToLower(JsString(Get(p, RoleFields[i]))) = accountLower

\* listProjectsForAccount's filter callback
ProjectMatches(p, keyword) ==
  LET accountLower == ToLower(Trim(account))
      matchKeyword ==
        IF Truthy(keyword) THEN Includes(ToLower(NameOf(p)), ToLower(JsString(keyword)))
        ELSE TRUE
  IN IF accountLower = NoChars THEN matchKeyword
     ELSE matchKeyword /\ (TeamMatch(p, accountLower) \/ FieldMatch(p, accountLower))

\* listProjectsForAccount after the reply: extract, filter, then slice
listProjectsResult(payload, keyword, limit) ==
  Slice(SelectSeq(extractArray(payload, <<"projects">>),
                  LAMBDA p : ProjectMatches(p, keyword)),
        limit)

\* ------------------------------------- fetchBugsByProduct, getBugWithImages

\* the descriptor fetchBugsByProduct hands to callZenTao
BugsDescriptor(productId, keyword, limit, page) ==
  [force |-> FALSE, path |-> BugsPath, method |-> "GET",
   query |-> [present |-> TRUE,
              entries |-> <<[key |-> KeyPage, value |-> JNum(page)],
                            [key |-> KeyLimit, value |-> JNum(limit)],
                            [key |-> KeyProduct, value |-> productId],
                            [key |-> KeyKeywords, value |-> keyword]>>]]

\* String(bug.status || bug.state || "").trim().toLowerCase()
StatusOf(bug) ==
  ToLower(Trim(JsString(Or(Or(Get(bug, "status"), Get(bug, "state")), JStr(NoChars)))))

\* status ? String(status).trim().toLowerCase() : null ("" stands for null: both falsy)
StatusLower(status) == IF Truthy(status) THEN ToLower(Trim(JsString(status))) ELSE NoChars

\* fetchBugsByProduct's filter callback
BugMatches(bug, keyword, allStatuses, status) ==
  LET assignedCandidates ==
        normalizeAccount(Get(bug, "assignedTo"))
          \o normalizeAccount(Get(bug, "assignedToName"))
          \o normalizeAccount(Get(bug, "assignedToRealname"))
      accountLower == ToLower(Trim(account))
      matchAssignee ==
        IF accountLower # NoChars
        THEN \E i \in 1..Len(assignedCandidates) : assignedCandidates[i] = accountLower
        ELSE TRUE
      matchKeyword ==
        IF Truthy(keyword)
        THEN Includes(ToLower(JsString(Or(Or(Get(bug, "title"), Get(bug, "name")),
                                          JStr(NoChars)))),
                      ToLower(JsString(keyword)))
        ELSE TRUE
      matchStatus ==
        IF allStatuses THEN TRUE
        ELSE IF StatusLower(status) # NoChars THEN StatusOf(bug) = StatusLower(status)
        ELSE TRUE
  IN matchAssignee /\ matchKeyword /\ matchStatus

\* fetchBugsByProduct after the reply: the bugs it returns
fetchBugsResult(payload, keyword, allStatuses, status) ==
  SelectSeq(extractArray(payload, <<"bugs">>),
            LAMBDA bug : BugMatches(bug, keyword, allStatuses, status))

\* the descriptor getBugWithImages hands to callZenTao: `bugs/${bugId}`
DetailDescriptor(bugId) ==
  [force |-> FALSE, path |-> BugsPath \o <<"/">> \o JsString(bugId), method |-> "GET",
   query |-> NoQuery]

\* /^https?:\/\//i.test(url)
IsHttpUrl(url) ==
  \/ StartsWith(ToLower(url), Http \o <<":", "/", "/">>)
  \/ StartsWith(ToLower(url), Http \o <<"s", ":", "/", "/">>)

\* parseImageSources: the http(s) sources of the img elements, in order
parseImageSources(html) ==
  IF html.type # "html" THEN <<>>
  ELSE LET imgs == SelectSeq(html.elems, LAMBDA e : e.tag = "img" /\ IsHttpUrl(e.src))
       IN [i \in 1..Len(imgs) |-> JStr(imgs[i].src)]

\* getBugWithImages after the reply: {...bug, stepsHtml, stepsImages}; the object that
\* stands for {} has the one field the result overwrites
getBugWithImages(data) ==
  LET bug == Or(data, JObj([stepsHtml |-> JStr(NoChars)]))
      own == IF bug.type = "object" THEN DOMAIN bug.fields ELSE {}
      stepsHtml == Or(Or(Get(bug, "steps"), Get(bug, "stepsHtml")), JStr(NoChars))
  IN JObj([k \in own \cup {"stepsHtml", "stepsImages"} |->
             IF k = "stepsHtml" THEN stepsHtml
             ELSE IF k = "stepsImages" THEN JArr(parseImageSources(stepsHtml))
             ELSE bug.fields[k]])

\* ------------------------------------------------------------- the bug tools

Active == <<"a", "c", "t", "i", "v", "e">>
Closed == <<"c", "l", "o", "s", "e", "d">>

Product(id, name) == JObj([id |-> JNum(id), name |-> JStr(name)])

ProductPool ==
  {Product(1, <<"F", "o">>), Product(2, <<"f", "o">>), Product(3, <<"F", "o", "b">>),
   Product(4, <<"B">>)}

Bug(id, title, status, assignedTo) ==
  JObj([id |-> JNum(id), title |-> JStr(title), status |-> JStr(status),
        assignedTo |-> assignedTo])

BugPool ==
  {Bug(1, <<"x">>, Active, JStr(<<"a">>)), Bug(2, <<"x", "y">>, Closed, JStr(<<"a">>)),
   Bug(3, <<"y">>, <<"A", "c", "t", "i", "v", "e">>, JObj([account |-> JStr(<<"A">>)])),
   Bug(4, <<"x">>, Active, JStr(<<"b">>))}

\* The lists of at most n distinct members of pool.
ListsOf(pool, n) ==
  UNION {{l \in [1..k -> pool] : \A i, j \in 1..k : i # j => l[i] # l[j]} : k \in 0..n}

OkReply(value) == [status |-> 200, statusText |-> <<"O", "K">>, text |-> JsonText(value)]
FailedReply == [status |-> 500, statusText |-> <<"E">>, text |-> RawText(Boom)]

\* Replies to GET products.
ProductsReplies ==
  {OkReply(JObj([products |-> JArr(l)])) : l \in ListsOf(ProductPool, MaxProducts)}
    \cup {OkReply(JArr(<<Product(1, <<"F", "o">>)>>)), OkReply(JNull), FailedReply}

Project(id, name, pm, team) ==
  JObj([id |-> JNum(id), name |-> JStr(name), PM |-> pm, teamMembers |-> team])

\* Projects whose manager or team member is the account "a", written as a string or as
\* a user object, and one that is nobody's.
ProjectPool ==
  {Project(1, <<"F", "o">>, JStr(<<"a">>), JNull),
   Project(2, <<"B", "o">>, JObj([account |-> JStr(<<"A">>)]), JNull),
   Project(3, <<"f", "o">>, JStr(<<"b">>), JArr(<<JObj([account |-> JStr(<<"A">>)])>>)),
   Project(4, <<"B">>, JStr(<<"A">>), JArr(<<JStr(<<"a">>)>>)),
   Project(5, <<"o">>, JStr(<<"b">>), JArr(<<JStr(<<"a">>)>>)),
   Project(6, <<"F">>, JStr(<<"b">>), JArr(<<JObj([name |-> JStr(<<"b">>)])>>))}

\* Replies to GET projects.
ProjectsReplies ==
  {OkReply(JObj([projects |-> JArr(l)])) : l \in ListsOf(ProjectPool, MaxProjects)}
    \cup {OkReply(JObj([data |-> JArr(<<Project(1, <<"F", "o">>, JStr(<<"a">>), JNull)>>)])),
          FailedReply}

\* Replies to GET bugs.
BugsReplies ==
  {OkReply(JObj([bugs |-> JArr(l)])) : l \in ListsOf(BugPool, MaxBugs)}
    \cup {OkReply(JObj([data |-> JArr(<<Bug(1, <<"x">>, Active, JStr(<<"a">>))>>)])),
          FailedReply}

Steps ==
  JHtml(<<[tag |-> "p", src |-> NoChars],
          [tag |-> "img", src |-> Http \o <<"s", ":", "/", "/", "x">>],
          [tag |-> "img", src |-> <<"d", "a", "t", "a", ":">>]>>)

\* Replies to GET bugs/{id}.
DetailReplies ==
  {OkReply(JObj([id |-> JNum(1), steps |-> Steps])), OkReply(JNull), FailedReply}

\* Arguments of getMyBug and getMyBugs.
BugToolArgs ==
  [productName : {Undefined, JStr(<<"F", "o">>), JStr(<<"o">>)},
   productId : {JNum(1)},
   keyword : {Undefined, JStr(<<"X">>)},
   status : {Undefined, JStr(Active), JStr(Closed)},
   allStatuses : BOOLEAN,
   limit : {Undefined, JNum(1)}]

\* Arguments of listMyProjects and searchProducts.
ListingArgs ==
  [productName : {Undefined}, productId : {Undefined},
   keyword : {Undefined, JStr(<<"O">>)}, status : {Undefined}, allStatuses : {FALSE},
   limit : {Undefined, JNum(1)}]

\* A tool result that is text.
TextResult(msg) == [NoResult EXCEPT !.kind = "text", !.msg = msg]
\* A tool result that is JSON: a list with the raw payload, or one value.
ListResult(items, raw) == [NoResult EXCEPT !.kind = "json", !.items = items, !.data = raw]
ValueResult(value) == [NoResult EXCEPT !.kind = "json", !.value = value]

\* Every call has been answered and its handler is gone.
AllIdle == \A d \in Calls : pc[d] = "idle"

\* The tool getMyBug up to its first await: findProductByName's name check, then
\* listProducts({keyword: name, limit: 50}).
InvokeGetMyBug(c, a) ==
  /\ AllIdle /\ MayStart(c)
  /\ tool' = [tool EXCEPT ![c] = "getMyBug"]
  /\ targs' = [targs EXCEPT ![c] = a]
  /\ IF ~Truthy(a.productName)
     THEN /\ Finish(c, Err("productName is required", 0, RawText(NoChars)))
          /\ UNCHANGED <<args, sent, stage>>
     ELSE /\ stage' = [stage EXCEPT ![c] = "products"]
          /\ StartCallZenTao(c, ProductsDescriptor(a.productName, 50))
  /\ UNCHANGED <<config, cachedToken, login, reply, issued, urlVars, readVars, local>>

\* The tool getMyBugs up to its first await: fetchBugsByProduct.
InvokeGetMyBugs(c, a) ==
  /\ AllIdle /\ MayStart(c)
  /\ tool' = [tool EXCEPT ![c] = "getMyBugs"]
  /\ targs' = [targs EXCEPT ![c] = a]
  /\ stage' = [stage EXCEPT ![c] = "bugs"]
  /\ StartCallZenTao(c, BugsDescriptor(a.productId, a.keyword, LimitOr(a.limit, 20), 1))
  /\ UNCHANGED <<config, cachedToken, login, reply, issued, urlVars, readVars, local>>

Received(c, r) ==
  reply' = [reply EXCEPT ![c] = [status |-> r.status, statusText |-> r.statusText,
                                 headers |-> JsonHeaders, text |-> r.text]]

\* GET products answers: listProducts, findProductByName, then getMyBug up to
\* fetchBugsByProduct's request or its disambiguation error.
ProductsReply(c, r) ==
  /\ pc[c] = "fetch_wait" /\ stage[c] = "products"
  /\ Received(c, r)
  /\ LET res == callZenTaoResult(r.status, r.statusText, JsonHeaders, r.text)
         candidates == listProductsResult(DataValue(res.data), targs[c].productName, 50)
         product == findProduct(candidates, targs[c].productName)
     IN IF res.kind = "error"
        THEN Finish(c, res) /\ UNCHANGED <<args, sent, stage, local>>
        ELSE /\ local' = [local EXCEPT ![c] = [NoLocal EXCEPT !.listed = TRUE,
                                                 !.matches = candidates,
                                                 !.product = product]]
             /\ IF ~Truthy(product)
                THEN /\ Finish(c, Err(IF Len(candidates) = 0 THEN "No product matched"
                                      ELSE "Multiple products matched", 0,
                                      RawText(JoinNames(candidates))))
                     /\ UNCHANGED <<args, sent, stage>>
                ELSE /\ stage' = [stage EXCEPT ![c] = "bugs"]
                     /\ StartCallZenTao(c, BugsDescriptor(Get(product, "id"),
                                                          targs[c].keyword, 1, 1))
  /\ UNCHANGED <<config, cachedToken, tool, login, issued, urlVars, readVars, targs>>

\* GET bugs answers: fetchBugsByProduct's filter, then getMyBugs' result, or getMyBug
\* up to getBugWithImages' request.
BugsReply(c, r) ==
  /\ pc[c] = "fetch_wait" /\ stage[c] = "bugs"
  /\ Received(c, r)
  /\ LET res == callZenTaoResult(r.status, r.statusText, JsonHeaders, r.text)
         bugs == fetchBugsResult(DataValue(res.data), targs[c].keyword,
                                 targs[c].allStatuses, targs[c].status)
     IN IF res.kind = "error"
        THEN Finish(c, res) /\ UNCHANGED <<args, sent, stage, local>>
        ELSE /\ local' = [local EXCEPT ![c].bugs = bugs]
             /\ IF tool[c] = "getMyBugs"
                THEN Finish(c, ListResult(bugs, res.data)) /\ UNCHANGED <<args, sent, stage>>
                ELSE IF Len(bugs) = 0
                THEN /\ Finish(c, TextResult("No active bugs assigned"))
                     /\ UNCHANGED <<args, sent, stage>>
                ELSE /\ stage' = [stage EXCEPT ![c] = "detail"]
                     /\ StartCallZenTao(c, DetailDescriptor(Or(Get(bugs[1], "id"),
                                                               Get(bugs[1], "bugId"))))
  /\ UNCHANGED <<config, cachedToken, tool, login, issued, urlVars, readVars, targs>>

\* GET bugs/{id} answers: getBugWithImages, then getMyBug's result.
DetailReply(c, r) ==
  /\ pc[c] = "fetch_wait" /\ stage[c] = "detail"
  /\ Received(c, r)
  /\ LET res == callZenTaoResult(r.status, r.statusText, JsonHeaders, r.text)
     IN IF res.kind = "error" THEN Finish(c, res)
        ELSE Finish(c, ValueResult(JObj(
               [product |-> JObj([id |-> Get(local[c].product, "id"),
                                  name |-> Get(local[c].product, "name")]),
                bug |-> getBugWithImages(DataValue(res.data))])))
  /\ UNCHANGED <<config, cachedToken, tool, args, login, sent, issued, urlVars, readVars, toolVars>>

\* The tool listMyProjects up to its first await: listProjectsForAccount's request.
InvokeListMyProjects(c, a) ==
  /\ AllIdle /\ MayStart(c)
  /\ tool' = [tool EXCEPT ![c] = "listMyProjects"]
  /\ targs' = [targs EXCEPT ![c] = a]
  /\ stage' = [stage EXCEPT ![c] = "projects"]
  /\ StartCallZenTao(c, ProjectsDescriptor(LimitOr(a.limit, 50)))
  /\ UNCHANGED <<config, cachedToken, login, reply, issued, urlVars, readVars, local>>

\* The tool searchProducts up to its first await: listProducts' request.
InvokeSearchProducts(c, a) ==
  /\ AllIdle /\ MayStart(c)
  /\ tool' = [tool EXCEPT ![c] = "searchProducts"]
  /\ targs' = [targs EXCEPT ![c] = a]
  /\ stage' = [stage EXCEPT ![c] = "search"]
  /\ StartCallZenTao(c, ProductsDescriptor(a.keyword, LimitOr(a.limit, 20)))
  /\ UNCHANGED <<config, cachedToken, login, reply, issued, urlVars, readVars, local>>

\* GET projects answers: listProjectsForAccount, then listMyProjects' result.
ProjectsReply(c, r) ==
  /\ pc[c] = "fetch_wait" /\ stage[c] = "projects"
  /\ Received(c, r)
  /\ LET res == callZenTaoResult(r.status, r.statusText, JsonHeaders, r.text)
     IN IF res.kind = "error" THEN Finish(c, res)
        ELSE Finish(c, ListResult(listProjectsResult(DataValue(res.data), targs[c].keyword,
                                                     LimitOr(targs[c].limit, 50)),
                                  NoData))
  /\ UNCHANGED <<config, cachedToken, tool, args, login, sent, issued, urlVars, readVars,
                 toolVars>>

\* GET products answers searchProducts: listProducts, then the tool's result.
SearchReply(c, r) ==
  /\ pc[c] = "fetch_wait" /\ stage[c] = "search"
  /\ Received(c, r)
  /\ LET res == callZenTaoResult(r.status, r.statusText, JsonHeaders, r.text)
     IN IF res.kind = "error" THEN Finish(c, res)
        ELSE Finish(c, ListResult(listProductsResult(DataValue(res.data), targs[c].keyword,
                                                     LimitOr(targs[c].limit, 20)),
                                  NoData))
  /\ UNCHANGED <<config, cachedToken, tool, args, login, sent, issued, urlVars, readVars,
                 toolVars>>

\* The handler has returned and its result is sent: its frame is gone.
Release(c) ==
  /\ pc[c] = "done"
  /\ pc' = [pc EXCEPT ![c] = "idle"]
  /\ tool' = [tool EXCEPT ![c] = ""]
  /\ args' = [args EXCEPT ![c] = NoArgs]
  /\ login' = [login EXCEPT ![c] = NoReply]
  /\ sent' = [sent EXCEPT ![c] = NoRequest]
  /\ reply' = [reply EXCEPT ![c] = NoReply]
  /\ result' = [result EXCEPT ![c] = NoResult]
  /\ targs' = [targs EXCEPT ![c] = NoToolArgs]
  /\ stage' = [stage EXCEPT ![c] = ""]
  /\ local' = [local EXCEPT ![c] = NoLocal]
  /\ UNCHANGED <<config, cachedToken, issued, urlVars, readVars>>

InitTools ==
  /\ \E t \in EnvTokens : Loaded([FullEnv EXCEPT !.token = t])
  /\ NoCalls
  /\ urlIn = NoUrlIn
  /\ urlOut = NoUrlOut
  /\ NothingRead

\* The bug tools, one invocation at a time.
NextTools ==
  \E c \in Calls :
    \/ \E a \in BugToolArgs : a.limit = Undefined /\ InvokeGetMyBug(c, a)
    \/ \E a \in BugToolArgs : InvokeGetMyBugs(c, a)
    \/ \E a \in ListingArgs : InvokeListMyProjects(c, a)
    \/ \E a \in ListingArgs : InvokeSearchProducts(c, a)
    \/ \E r \in ProjectsReplies : ProjectsReply(c, r)
    \/ \E r \in ProductsReplies : SearchReply(c, r)
    \/ \E r \in LoginReplies(FreshToken) : LoginReply(c, r.status, r.text)
    \/ \E r \in ProductsReplies : ProductsReply(c, r)
    \/ \E r \in BugsReplies : BugsReply(c, r)
    \/ \E r \in DetailReplies : DetailReply(c, r)
    \/ Release(c)

SpecTools == InitTools /\ [][NextTools]_vars

\* --------------------------------------------------- the bug tools: claims

\* The candidates with an exact case-insensitive name match.
ExactMatches(candidates, name) ==
  {i \in 1..Len(candidates) : ToLower(NameOf(candidates[i])) = ToLower(JsString(name))}

\* The claim's rule: exactly one exact match, or exactly one candidate overall.
Resolvable(candidates, name) ==
  Cardinality(ExactMatches(candidates, name)) = 1 \/ Len(candidates) = 1

\* Call c has asked the remote for bugs.
QueriedBugs(c) == stage[c] \in {"bugs", "detail"}

\* C9: getMyBug resolves the product name exactly when one candidate has an exact
\* case-insensitive name match or there is one candidate overall; in every other case
\* (several exact matches included) no product is resolved and it fails with an error
\* listing all candidate names, or saying nothing matched, and queries no bugs.
C9_ProductResolution ==
  \A c \in Calls :
    (tool[c] = "getMyBug" /\ local[c].listed) =>
      /\ Truthy(local[c].product) <=> Resolvable(local[c].matches, targs[c].productName)
      /\ ~Resolvable(local[c].matches, targs[c].productName) =>
           /\ pc[c] = "done" /\ result[c].kind = "error" /\ ~QueriedBugs(c)
           /\ IF Len(local[c].matches) = 0 THEN result[c].msg = "No product matched"
              ELSE /\ result[c].msg = "Multiple products matched"
                   /\ \A i \in 1..Len(local[c].matches) :
                        Includes(result[c].body.chars, NameOf(local[c].matches[i]))

\* C9 where it holds: with at most one exact match among the candidates.
C9_AtMostOneExactMatch ==
  \A c \in Calls :
    (/\ tool[c] = "getMyBug" /\ local[c].listed
     /\ Cardinality(ExactMatches(local[c].matches, targs[c].productName)) <= 1)
      => (/\ Truthy(local[c].product)
            <=> Resolvable(local[c].matches, targs[c].productName)
          /\ ~Truthy(local[c].product) => result[c].kind = "error" /\ ~QueriedBugs(c))

\* Call c's bug query has been answered and filtered.
BugsFiltered(c) ==
  /\ tool[c] \in {"getMyBug", "getMyBugs"}
  /\ reply[c].status # 0 /\ IsOk(reply[c].status)
  /\ stage[c] = "detail" \/ (stage[c] = "bugs" /\ pc[c] = "done")

\* C10: getMyBugs and getMyBug called without a status and with allStatuses false
\* return only bugs whose status is "active".
C10_DefaultActiveOnly ==
  \A c \in Calls :
    (BugsFiltered(c) /\ ~Truthy(targs[c].status) /\ ~targs[c].allStatuses) =>
      \A i \in 1..Len(local[c].bugs) : StatusOf(local[c].bugs[i]) = Active

\* C10 with the status given: only bugs of that status are returned.
C10_ExplicitStatus ==
  \A c \in Calls :
    (BugsFiltered(c) /\ Truthy(targs[c].status) /\ ~targs[c].allStatuses) =>
      \A i \in 1..Len(local[c].bugs) :
        StatusOf(local[c].bugs[i]) = ToLower(JsString(targs[c].status))

\* ------------------------------------------------ listing operations: claims

\* Call c is a listing operation that has returned its list.
Listed(c) ==
  /\ tool[c] \in {"listMyProjects", "searchProducts", "getMyBugs"}
  /\ pc[c] = "done" /\ result[c].kind = "json"

\* The payload of the reply call c received.
ReplyPayload(c) ==
  DataValue(callZenTaoResult(reply[c].status, reply[c].statusText, reply[c].headers,
                             reply[c].text).data)

\* The limit in force for call c: the caller's, or the operation's default.
LimitOf(c) == LimitOr(targs[c].limit, IF tool[c] = "listMyProjects" THEN 50 ELSE 20)

\* The records of the reply that pass call c's filter, in the reply's order.
FilteredOf(c) ==
  CASE tool[c] = "listMyProjects" ->
         SelectSeq(extractArray(ReplyPayload(c), <<"projects">>),
                   LAMBDA p : ProjectMatches(p, targs[c].keyword))
    [] tool[c] = "searchProducts" ->
         listProductsResult(ReplyPayload(c), targs[c].keyword,
                            Len(extractArray(ReplyPayload(c), <<"products">>)))
    [] OTHER ->
         fetchBugsResult(ReplyPayload(c), targs[c].keyword, targs[c].allStatuses,
                         targs[c].status)

\* C11: listMyProjects, searchProducts and getMyBugs return at most `limit` items (the
\* caller's limit or the operation's default), namely the first `limit` items of the
\* filtered list of the reply.
C11_LimitAfterFilter ==
  \A c \in Calls :
    Listed(c) =>
      /\ Len(result[c].items) <= LimitOf(c)
      /\ result[c].items = Slice(FilteredOf(c), LimitOf(c))

\* C11 where it holds: listMyProjects and searchProducts slice after filtering.
C11_SlicedListings ==
  \A c \in Calls :
    (Listed(c) /\ tool[c] # "getMyBugs") =>
      /\ Len(result[c].items) <= LimitOf(c)
      /\ result[c].items = Slice(FilteredOf(c), LimitOf(c))

\* A listing under the caller's limit returned as many records as the limit allows, and
\* not the first of the reply: filtering a truncated reply would have returned none.
C11_Truncated ==
  \E c \in Calls :
    /\ Listed(c) /\ tool[c] # "getMyBugs"
    /\ targs[c].limit # Undefined /\ Len(FilteredOf(c)) >= LimitOf(c)
    /\ result[c].items # <<>>
    /\ result[c].items[1] # extractArray(ReplyPayload(c), <<"projects", "products">>)[1]

\* The members of a list.
Members(list) == {list[i] : i \in 1..Len(list)}

\* The fields of a record that name people: a project's role fields and each of its
\* team members, a bug's assignedTo fields.
IdentityFields(rec, t) ==
  IF t = "listMyProjects"
  THEN {Get(rec, RoleFields[i]) : i \in 1..Len(RoleFields)}
         \cup (IF Get(rec, "teamMembers").type = "array"
               THEN Members(Get(rec, "teamMembers").items) ELSE {})
  ELSE {Get(rec, "assignedTo"), Get(rec, "assignedToName"), Get(rec, "assignedToRealname")}

\* The claim's rule: the account, trimmed and lower-cased, is in the normalized identity
\* set of one of the record's identity fields.
IdentityMatches(rec, t) ==
  \E f \in IdentityFields(rec, t) : ToLower(Trim(account)) \in Members(normalizeAccount(f))

\* Call c listed records by identity alone: no keyword, no status, the default limit.
ListedByIdentity(c) ==
  /\ Listed(c) /\ tool[c] \in {"listMyProjects", "getMyBugs"}
  /\ ~Truthy(targs[c].keyword) /\ ~Truthy(targs[c].status)
  /\ targs[c].limit = Undefined

\* The records of the reply call c received.
ReplyRecords(c) == Members(extractArray(ReplyPayload(c), <<"projects", "bugs">>))

\* C12: a project or a bug of the reply is listed if and only if the account, trimmed
\* and lower-cased, is a member of the normalized identity set of one of its identity
\* fields, whatever the shape of the field: a user object {account: "A"} and the string
\* "a" match alike.
C12_IdentityMatch ==
  \A c \in Calls :
    ListedByIdentity(c) =>
      \A rec \in ReplyRecords(c) :
        rec \in Members(result[c].items) <=> IdentityMatches(rec, tool[c])

\* C12 where it holds: the bugs of getMyBugs.
C12_BugIdentity ==
  \A c \in Calls :
    (ListedByIdentity(c) /\ tool[c] = "getMyBugs") =>
      \A rec \in ReplyRecords(c) :
        rec \in Members(result[c].items) <=> IdentityMatches(rec, tool[c])

\* getMyBugs listed a bug whose assignee is a user object, and left one out.
C12_BugObjectListed ==
  \E c \in Calls :
    /\ ListedByIdentity(c) /\ tool[c] = "getMyBugs"
    /\ \E rec \in Members(result[c].items) : Get(rec, "assignedTo").type = "object"
    /\ ReplyRecords(c) # Members(result[c].items)

\* ------------------------------------------------ the resource zentao://config

LabelBaseUrl == <<"Z", "E", "N", "T", "A", "O", "_", "B", "A", "S", "E", "_", "U", "R", "L", ":", " ">>
LabelAccount == <<"Z", "E", "N", "T", "A", "O", "_", "A", "C", "C", "O", "U", "N", "T", ":", " ">>
LabelPassword == <<"Z", "E", "N", "T", "A", "O", "_", "P", "A", "S", "S", "W", "O", "R", "D", ":", " ">>
LabelToken ==
  <<"Z", "E", "N", "T", "A", "O", "_", "T", "O", "K", "E", "N", ":", " ">>
TextSet == <<"s", "e", "t">>
TextMissing == <<"m", "i", "s", "s", "i", "n", "g">>
TextSetCached ==
  <<"s", "e", "t", " ", "(", "c", "a", "c", "h", "e", "d", ")">>
TextNotCached ==
  <<"n", "o", "t", " ", "c", "a", "c", "h", "e", "d">>
\* "\\n" in the source: a backslash and the letter n
LineBreak == <<"\\", "n">>

\* the first three lines: `${name ? "set" : "missing"}`, name a string
PresenceLine(label, value) == label \o (IF value # NoChars THEN TextSet ELSE TextMissing)

TokenLineLeaking(token) == LabelToken \o JsString(token)

\* the last line: `${cachedToken ? "set (cached)" : "not cached"}`
TokenLine(token) == LabelToken \o (IF Truthy(token) THEN TextSetCached ELSE TextNotCached)

\* the text of the resource zentao://config
configReport(base, acc, pass, token) ==
  PresenceLine(LabelBaseUrl, base) \o LineBreak \o PresenceLine(LabelAccount, acc)
    \o LineBreak \o PresenceLine(LabelPassword, pass) \o LineBreak \o TokenLine(token)

\* ReadResource of zentao://config: the handler has no await
ReadConfig ==
  /\ ~report.read
  /\ report' = [read |-> TRUE, text |-> configReport(baseUrl, account, password, cachedToken)]
  /\ UNCHANGED <<config, cachedToken, pc, tool, args, login, sent, reply, result, issued,
                 urlVars, toolVars, exIn, exOut>>

Host2 == <<"h", "t", "t", "p", ":", "/", "/", "y">>
T9 == <<"s", "9">>

\* Environments with two values of each variable, an unset one, and a base URL that is
\* only a slash.
ReportEnvs ==
  [base : {NoChars, <<"/">>, Host \o <<"/">>, Host2},
   account : {NoChars, <<"a">>, <<"b">>},
   password : {NoChars, <<"p">>, <<"q">>},
   token : {NoChars, T0, T9}]

InitConfig ==
  /\ \E e \in ReportEnvs : Loaded(e)
  /\ NoCalls
  /\ urlIn = NoUrlIn
  /\ urlOut = NoUrlOut
  /\ NothingRead

\* get_token calls, one at a time, that fill and refresh the token cache, up to the
\* first read of zentao://config.
NextConfig ==
  \/ \E c \in Calls :
       \/ \E forceRefresh \in BOOLEAN :
            /\ ~report.read /\ AllIdle /\ issued < MaxIssued
            /\ InvokeGetToken(c, forceRefresh)
       \/ \E r \in LoginReplies(FreshToken) :
            ~report.read /\ LoginReply(c, r.status, r.text)
       \/ ~report.read /\ Release(c)
  \/ ReadConfig

SpecConfig == InitConfig /\ [][NextConfig]_vars

\* --------------------------------------------------- zentao://config: claims

\* Configurations and token-cache states: the values of baseUrl, account, password and
\* cachedToken.
ReportConfigs ==
  [base : {NoChars, Host, Host2}, account : {NoChars, <<"a">>, <<"b">>},
   password : {NoChars, <<"p">>, <<"q">>},
   token : {JStr(NoChars), JStr(T0), JStr(T9), JStr(<<"t", "1">>), JStr(<<"t", "2">>)}]

\* Configuration k and the program's agree on which of the four are set.
SamePresence(k) ==
  /\ (k.base # NoChars) <=> (baseUrl # NoChars)
  /\ (k.account # NoChars) <=> (account # NoChars)
  /\ (k.password # NoChars) <=> (password # NoChars)
  /\ Truthy(k.token) <=> Truthy(cachedToken)

\* C13: the text read from zentao://config is the text every configuration and
\* token-cache state with the same variables set would give: it depends on which of
\* base URL, account, password and cached token are set, never on their values.
C13_PresenceOnly ==
  report.read =>
    \A k \in ReportConfigs :
      SamePresence(k) => configReport(k.base, k.account, k.password, k.token) = report.text

\* The report was read with every credential set and a token in the cache that a login
\* exchange put there.
C13_Witness ==
  /\ report.read
  /\ baseUrl # NoChars /\ account # NoChars /\ password # NoChars
  /\ Truthy(cachedToken) /\ cachedToken # JStr(env.token)
  /\ \E k \in ReportConfigs :
       /\ SamePresence(k)
       /\ <<k.base, k.account, k.password, k.token>>
            # <<baseUrl, account, password, cachedToken>>

\* --------------------------------------------------------- extractArray alone

PayloadKeys == {"bugs", "items", "data"}

\* What a payload may hold under a key: an array of its own, the empty array, a string.
ValuesUnder(k) ==
  {JArr(<<JStr(<<k>>)>>), JArr(<<>>), JStr(<<"x">>)}

\* The objects with any of the keys, each holding an array or a string.
PayloadObjects ==
  UNION {{JObj(f) : f \in {g \in [S -> UNION {ValuesUnder(k) : k \in PayloadKeys}] :
                             \A k \in S : g[k] \in ValuesUnder(k)}} :
           S \in SUBSET PayloadKeys}

\* Arrays, null, undefined and scalars.
PayloadOthers ==
  {JArr(<<JNum(1), JNum(2)>>), JArr(<<>>), JNull, Undefined, JNum(0), JNum(5),
   JStr(<<"x">>)}

KeyLists == UNION {[1..n -> PayloadKeys] : n \in 0..MaxKeys}

ExtractInputs == [payload : PayloadObjects \cup PayloadOthers, keys : KeyLists]

InitExtract ==
  /\ Loaded(FullEnv)
  /\ NoCalls
  /\ urlIn = NoUrlIn
  /\ urlOut = NoUrlOut
  /\ report = NoReport
  /\ exIn \in ExtractInputs
  /\ exOut = NoExOut

\* extractArray(payload, keys) is called, as the listing operations call it.
CallExtractArray ==
  /\ ~exOut.called
  /\ exOut' = [called |-> TRUE,
               threw |-> extractArrayThrows(exIn.payload, exIn.keys),
               items |-> extractArray(exIn.payload, exIn.keys)]
  /\ UNCHANGED <<config, cachedToken, pc, tool, args, login, sent, reply, result, issued,
                 urlVars, toolVars, report, exIn>>

SpecExtract == InitExtract /\ [][CallExtractArray]_vars

\* ------------------------------------------------------- extractArray: claims

\* The places in keys of the candidate keys under which the payload holds an array.
ArrayKeys(payload, keys) == {i \in 1..Len(keys) : Get(payload, keys[i]).type = "array"}

\* The least member of a non-empty set of numbers.
Least(S) == CHOOSE i \in S : \A j \in S : i <= j

\* The claim's order: the payload if an array, else the array under the first candidate
\* key holding one, else the array under data, else the empty sequence.
ExpectedArray(payload, keys) ==
  IF payload.type = "array" THEN payload.items
  ELSE IF ArrayKeys(payload, keys) # {}
  THEN Get(payload, keys[Least(ArrayKeys(payload, keys))]).items
  ELSE IF Get(payload, "data").type = "array" THEN Get(payload, "data").items
  ELSE <<>>

\* C14: extractArray returns the payload itself if it is an array, otherwise the array
\* under the first candidate key, in the caller's order, that holds an array, otherwise
\* the array under data, otherwise the empty sequence; it never throws, on null,
\* undefined and scalars included.
C14_ExtractOrder ==
  exOut.called =>
    /\ ~exOut.threw
    /\ exOut.items = ExpectedArray(exIn.payload, exIn.keys)

\* extractArray passed over a first candidate key that holds no array and returned the
\* array under the second, though data holds another array.
C14_Witness ==
  /\ exOut.called
  /\ Len(exIn.keys) = 2 /\ "data" \notin Members(exIn.keys)
  /\ Get(exIn.payload, exIn.keys[1]).type = "string"
  /\ Get(exIn.payload, exIn.keys[2]).type = "array"
  /\ Get(exIn.payload, "data").type = "array"
  /\ exOut.items = Get(exIn.payload, exIn.keys[2]).items
  /\ exOut.items # Get(exIn.payload, "data").items

\* extractArray was called on null and returned the empty sequence.
C14_NullPayload ==
  exOut.called /\ exIn.payload = JNull /\ exIn.keys # <<>> /\ exOut.items = <<>>

\* ----------------------------------------------------------------- getNextBug

\* while (page <= 10), and pageSize
MaxPages == 10
PageSize == 20

MorePagesOneMore(page) == page <= MaxPages + 1

\* the loop condition of getNextBug
MorePages(page) == page <= MaxPages

\* Arguments of getNextBug.
NextBugArgs ==
  [productName : {Undefined}, productId : {JNum(1)}, keyword : {Undefined},
   status : {Undefined, JStr(Active)}, allStatuses : {FALSE}, limit : {Undefined}]

\* Replies to a page of GET bugs: no bugs, another's bug, another's and then mine, a
\* closed and then an active bug of mine, a failure.
PageReplies ==
  {OkReply(JObj([bugs |-> JArr(<<>>)])),
   OkReply(JObj([bugs |-> JArr(<<Bug(4, <<"x">>, Active, JStr(<<"b">>))>>)])),
   OkReply(JObj([bugs |-> JArr(<<Bug(4, <<"x">>, Active, JStr(<<"b">>)),
                                 Bug(1, <<"x">>, Active, JStr(<<"a">>))>>)])),
   OkReply(JObj([bugs |-> JArr(<<Bug(2, <<"x", "y">>, Closed, JStr(<<"a">>)),
                                 Bug(1, <<"x">>, Active, JStr(<<"a">>))>>)])),
   FailedReply}

\* The tool getNextBug up to its first await: page 1 of fetchBugsByProduct.
InvokeGetNextBug(c, a) ==
  /\ AllIdle /\ MayStart(c)
  /\ tool' = [tool EXCEPT ![c] = "getNextBug"]
  /\ targs' = [targs EXCEPT ![c] = a]
  /\ stage' = [stage EXCEPT ![c] = "page"]
  /\ local' = [local EXCEPT ![c] = [NoLocal EXCEPT !.page = 1]]
  /\ StartCallZenTao(c, BugsDescriptor(a.productId, a.keyword, PageSize, 1))
  /\ UNCHANGED <<config, cachedToken, login, reply, issued, urlVars, readVars>>

\* A page of GET bugs answers: fetchBugsByProduct's filter, then getNextBug up to its
\* next await (the detail of the first match, or the next page) or its return.
NextBugPageReply(c, r) ==
  /\ pc[c] = "fetch_wait" /\ stage[c] = "page"
  /\ Received(c, r)
  /\ LET res == callZenTaoResult(r.status, r.statusText, JsonHeaders, r.text)
         bugs == fetchBugsResult(DataValue(res.data), targs[c].keyword, FALSE,
                                 targs[c].status)
     IN IF res.kind = "error"
        THEN Finish(c, res) /\ UNCHANGED <<args, sent, stage, local>>
        ELSE IF Len(bugs) > 0
        THEN /\ local' = [local EXCEPT ![c].bugs = bugs]
             /\ stage' = [stage EXCEPT ![c] = "found"]
             /\ StartCallZenTao(c, DetailDescriptor(Or(Get(bugs[1], "id"),
                                                       Get(bugs[1], "bugId"))))
        ELSE /\ local' = [local EXCEPT ![c].page = @ + 1]
             /\ IF MorePages(local[c].page + 1)
                THEN /\ StartCallZenTao(c, BugsDescriptor(targs[c].productId,
                                                          targs[c].keyword, PageSize,
                                                          local[c].page + 1))
                     /\ UNCHANGED stage
                ELSE /\ Finish(c, TextResult("No active bugs assigned"))
                     /\ UNCHANGED <<args, sent, stage>>
  /\ UNCHANGED <<config, cachedToken, tool, login, issued, urlVars, readVars, targs>>

\* GET bugs/{id} answers getNextBug: getBugWithImages, then the tool's result.
NextBugDetailReply(c, r) ==
  /\ pc[c] = "fetch_wait" /\ stage[c] = "found"
  /\ Received(c, r)
  /\ LET res == callZenTaoResult(r.status, r.statusText, JsonHeaders, r.text)
     IN IF res.kind = "error" THEN Finish(c, res)
        ELSE Finish(c, ValueResult(JObj([bug |-> getBugWithImages(DataValue(res.data))])))
  /\ UNCHANGED <<config, cachedToken, tool, args, login, sent, issued, urlVars, readVars,
                 toolVars>>

\* The remote answers the request call c awaits.
NextBugAnswer(c) ==
  \/ \E r \in LoginReplies(FreshToken) : LoginReply(c, r.status, r.text)
  \/ \E r \in PageReplies : NextBugPageReply(c, r)
  \/ \E r \in DetailReplies : NextBugDetailReply(c, r)

\* getNextBug, one invocation at a time.
NextNextBug ==
  \E c \in Calls :
    \/ \E a \in NextBugArgs : InvokeGetNextBug(c, a)
    \/ NextBugAnswer(c)
    \/ Release(c)

\* Every request is answered in the end: fetch resolves or rejects.
SpecNextBug ==
  InitTools /\ [][NextNextBug]_vars /\ WF_vars(\E c \in Calls : NextBugAnswer(c))

\* --------------------------------------------------------- getNextBug: claims

\* Call c is a getNextBug awaiting the answer to a page of bugs, or to the detail.
AwaitsPage(c) == tool[c] = "getNextBug" /\ pc[c] = "fetch_wait" /\ stage[c] = "page"
AwaitsDetail(c) == tool[c] = "getNextBug" /\ pc[c] = "fetch_wait" /\ stage[c] = "found"

\* The page the bugs request of call c asks for: the value of its query's page.
RequestedPage(c) ==
  LET es == args[c].query.entries
  IN es[CHOOSE i \in 1..Len(es) : es[i].key = KeyPage].value.n

\* The matches in the reply call c received: the reply's bugs that pass the filter.
PageMatches(c) ==
  fetchBugsResult(ReplyPayload(c), targs[c].keyword, FALSE, targs[c].status)

\* getNextBug's message that nothing was found.
NotFound(c) ==
  /\ tool[c] = "getNextBug" /\ pc[c] = "done"
  /\ result[c].kind = "text" /\ result[c].msg = "No active bugs assigned"

\* The request in flight is for the page the loop is at, one of pages 1..10, and the
\* not-found message comes only after the tenth page.
PagesBounded ==
  \A c \in Calls :
    /\ AwaitsPage(c) =>
         /\ local[c].page \in 1..MaxPages
         /\ sent[c].issued /\ args[c].path = BugsPath
         /\ RequestedPage(c) = local[c].page
    /\ NotFound(c) => local[c].page = MaxPages + 1

\* What the answer to a page makes of the loop: a failure ends it with the error and no
\* further request; a page with a match ends the paging and asks for the detail of its
\* first match; a page without one asks for the next page, or after page 10 returns the
\* not-found message.
PageStep(c) ==
  (AwaitsPage(c) /\ <<pc[c], stage[c], local[c]>>' # <<pc[c], stage[c], local[c]>>) =>
    IF ~IsOk(reply'[c].status)
    THEN /\ pc'[c] = "done" /\ result'[c].kind = "error"
         /\ sent'[c] = sent[c] /\ local'[c].page = local[c].page
    ELSE IF PageMatches(c)' # <<>>
    THEN /\ AwaitsDetail(c)' /\ local'[c].page = local[c].page
         /\ args'[c].path = BugsPath \o <<"/">> \o JsString(Get(PageMatches(c)'[1], "id"))
         /\ sent'[c].url = buildUrl(args'[c].path, NoQuery)
    ELSE IF local[c].page < MaxPages
    THEN /\ AwaitsPage(c)' /\ local'[c].page = local[c].page + 1
         /\ RequestedPage(c)' = local[c].page + 1
    ELSE /\ NotFound(c)' /\ sent'[c] = sent[c]

\* What the answer to the detail request makes of the call: the detail, or the error.
DetailStep(c) ==
  (AwaitsDetail(c) /\ pc'[c] # pc[c]) =>
    /\ pc'[c] = "done" /\ sent'[c] = sent[c]
    /\ IF IsOk(reply'[c].status)
       THEN /\ result'[c].kind = "json"
            /\ Get(result'[c].value, "bug") = getBugWithImages(ReplyPayload(c)')
       ELSE result'[c].kind = "error"

\* C15: getNextBug asks for pages 1, 2, ... in order, at most 10 of them; it stops at
\* the first page with a match and returns the detail of that page's first match; it
\* returns the not-found message exactly when pages 1..10 all had no match; a failed
\* request ends it at once with the error; and, every request being answered, it
\* terminates.
C15_BoundedPaging ==
  /\ []PagesBounded
  /\ [][\A c \in Calls : PageStep(c) /\ DetailStep(c)]_vars
  /\ \A c \in Calls : (tool[c] = "getNextBug") ~> (pc[c] = "done")

\* getNextBug returned the not-found message after asking for ten pages.
C15_Witness ==
  \E c \in Calls : NotFound(c) /\ local[c].page = MaxPages + 1 /\ RequestedPage(c) = MaxPages

\* getNextBug returned the detail of a bug it found on a page after the first.
C15_FoundLater ==
  \E c \in Calls :
    /\ tool[c] = "getNextBug" /\ pc[c] = "done" /\ stage[c] = "found"
    /\ result[c].kind = "json" /\ local[c].page > 1

====
